---- MODULE Spec2Model ----
(***************************************************************************)
(* A model of the remote-diagnostic core of kubespray:                     *)
(*   pkg/preflight/checker.go  (Checker: RunAll and its four checks)       *)
(*   pkg/health/monitor.go     (Monitor: CheckClusterHealth and its        *)
(*                              component checks; src/unnamed/part_002)    *)
(* Text that crosses the SSH channel is a sequence of one-character        *)
(* strings, so that trimming, searching and number parsing are computed    *)
(* as the Go library computes them.                                        *)
(***************************************************************************)
EXTENDS Integers, Sequences, FiniteSets, TLC

VARIABLES
    entry,        \* the exported method that was called
    pc,           \* position inside that call
    hosts,        \* Checker.hosts
    keyState,     \* what reading and parsing Checker.sshKeyPath gives
    dialOK,       \* remote side: does ssh.Dial to the host succeed
    profile,      \* remote side: what the three capacity commands print
    pingOut,      \* remote side: what ping prints on a link
    requested,    \* the Kubernetes version the deployment configuration asks for
    i, j,         \* loop positions (range indices, 1-based)
    fnResults,    \* the local `results` / `statuses` slice of the running check
    results,      \* RunAll's `results` slice
    returned,     \* what the exported method returned, or "none"
    sessions,     \* every ssh.Client ever opened: host, owner, open?, close count
    deferred,     \* the running function's stack of deferred client.Close()
    events,       \* what was done on the wire, in order
    masters,      \* Monitor.masters
    nodes,        \* Monitor.nodes
    sshStub,      \* TRUE: Monitor.sshConnect is the stub of the source
    health,       \* the ClusterHealth under construction
    nodeStatus,   \* CheckClusterHealth's local nodeStatus slice
    ctxDone,      \* the caller's context.Context is cancelled or past its deadline
    inventory,    \* the inventory file Validator.Validate is given
    has,          \* Validate's hasAll, hasControlPlane, hasNode, hasEtcd
    cidr          \* the string Calculator.CalculateSubnets is given

vars == <<entry, pc, hosts, keyState, dialOK, profile, pingOut, requested,
          i, j, fnResults, results, returned, sessions, deferred, events,
          masters, nodes, sshStub, health, nodeStatus, ctxDone,
          inventory, has, cidr>>

---------------------------------------------------------------------------
(* Bounds of the model.                                                    *)

MaxHosts == 3
MaxMasters == 2
MaxNodes == 2
MaxStubHosts == 3
MaxCtxHosts == 2
MaxCapHosts == 2
MaxLines == 4

---------------------------------------------------------------------------
(* Go's strings and strconv, on sequences of characters.                   *)

Digits == {"0", "1", "2", "3", "4", "5", "6", "7", "8", "9"}

DigitVal(c) ==
    CASE c = "0" -> 0 [] c = "1" -> 1 [] c = "2" -> 2 [] c = "3" -> 3
      [] c = "4" -> 4 [] c = "5" -> 5 [] c = "6" -> 6 [] c = "7" -> 7
      [] c = "8" -> 8 [] c = "9" -> 9

IsSpace(c) == c \in {" ", "\t", "\n", "\r", "\f"}

RECURSIVE TrimLeft(_)
TrimLeft(s) ==
    IF s # <<>> /\ IsSpace(Head(s)) THEN TrimLeft(Tail(s)) ELSE s

RECURSIVE TrimRight(_)
TrimRight(s) ==
    IF s # <<>> /\ IsSpace(s[Len(s)]) THEN TrimRight(SubSeq(s, 1, Len(s) - 1)) ELSE s

TrimSpace(s) == TrimRight(TrimLeft(s))

HasPrefix(s, p) == Len(s) >= Len(p) /\ SubSeq(s, 1, Len(p)) = p

HasSuffix(s, p) == Len(s) >= Len(p) /\ SubSeq(s, Len(s) - Len(p) + 1, Len(s)) = p

TrimSuffix(s, p) == IF HasSuffix(s, p) THEN SubSeq(s, 1, Len(s) - Len(p)) ELSE s

Contains(s, sub) ==
    \E k \in 1..(Len(s) - Len(sub) + 1) : SubSeq(s, k, k + Len(sub) - 1) = sub

AllDigits(s) == s # <<>> /\ \A k \in 1..Len(s) : s[k] \in Digits

RECURSIVE DecimalValue(_)
DecimalValue(s) ==
    IF s = <<>> THEN 0
    ELSE 10 * DecimalValue(SubSeq(s, 1, Len(s) - 1)) + DigitVal(s[Len(s)])

\* strconv.Atoi: an optional sign, then decimal digits only.
AtoiOK(s) ==
    IF s # <<>> /\ Head(s) \in {"+", "-"} THEN AllDigits(Tail(s)) ELSE AllDigits(s)

\* The value strconv.Atoi returns; every caller discards its error, and the
\* value beside a syntax error is 0.
Atoi(s) ==
    IF ~AtoiOK(s) THEN 0
    ELSE IF Head(s) = "-" THEN 0 - DecimalValue(Tail(s))
    ELSE IF Head(s) = "+" THEN DecimalValue(Tail(s))
    ELSE DecimalValue(s)

DigitChar(d) ==
    CASE d = 0 -> "0" [] d = 1 -> "1" [] d = 2 -> "2" [] d = 3 -> "3"
      [] d = 4 -> "4" [] d = 5 -> "5" [] d = 6 -> "6" [] d = 7 -> "7"
      [] d = 8 -> "8" [] d = 9 -> "9"

\* The decimal digits of a natural number, as the remote tools print it.
RECURSIVE Itoa(_)
Itoa(n) ==
    IF n < 10 THEN <<DigitChar(n)>> ELSE Itoa(n \div 10) \o <<DigitChar(n % 10)>>

\* The length of the run of white space of s that starts at position k.
RECURSIVE SpaceRun(_, _)
SpaceRun(s, k) ==
    IF k <= Len(s) /\ IsSpace(s[k]) THEN 1 + SpaceRun(s, k + 1) ELSE 0

\* The length of the run of decimal digits of s that starts at position k.
RECURSIVE DigitRun(_, _)
DigitRun(s, k) ==
    IF k <= Len(s) /\ s[k] \in Digits THEN 1 + DigitRun(s, k + 1) ELSE 0

Str_MemTotalColon == <<"M", "e", "m", "T", "o", "t", "a", "l", ":">>
Str_kB == <<"k", "B">>
Str_G == <<"G">>
Str_3received == <<"3", " ", "r", "e", "c", "e", "i", "v", "e", "d">>

\* Does `MemTotal:\s+(\d+)\s+kB` match s starting at position k; if so the
\* digits of the group.  \d+ has to take the whole run of digits, since what
\* follows it must be white space.
MemTotalAt(s, k) ==
    LET a  == k + Len(Str_MemTotalColon)
        w1 == SpaceRun(s, a)
        b  == a + w1
        d  == DigitRun(s, b)
        c  == b + d
        w2 == SpaceRun(s, c)
        e  == c + w2
    IN  IF /\ a - 1 <= Len(s)
           /\ SubSeq(s, k, a - 1) = Str_MemTotalColon
           /\ w1 >= 1 /\ d >= 1 /\ w2 >= 1
           /\ e + 1 <= Len(s)
           /\ SubSeq(s, e, e + 1) = Str_kB
        THEN SubSeq(s, b, c - 1)
        ELSE <<>>

\* regexp.FindStringSubmatch for that pattern: the group of the leftmost
\* match, or <<>> when nothing matches (matches == nil).
FindMemTotal(s) ==
    LET hits == {k \in 1..Len(s) : MemTotalAt(s, k) # <<>>}
    IN  IF hits = {} THEN <<>>
        ELSE MemTotalAt(s, CHOOSE k \in hits : \A m \in hits : k <= m)

---------------------------------------------------------------------------
(* The remote side of the preflight checks.                                *)

Hosts == {"10.0.0.1", "10.0.0.2"}

Rosters == UNION {[1..n -> Hosts] : n \in 0..MaxHosts}

\* What runSSHCommand returns: err # nil, or the combined output.
CmdErr == [err |-> TRUE, out |-> <<>>]
CmdOut(text) == [err |-> FALSE, out |-> text]

Str_nprocBad ==
    <<"n", "p", "r", "o", "c", ":", " ", "n", "o", "t", " ", "f", "o", "u", "n", "d", "\n">>
Str_memBad ==
    <<"M", "e", "m", "T", "o", "t", "a", "l", ":", " ", "u", "n", "k", "n", "o", "w", "n", "\n">>
Str_diskBad ==
    <<"d", "f", ":", " ", "n", "o", " ", "f", "i", "l", "e", " ", "s", "y", "s", "t", "e", "m", "s", "\n">>
Str_ping3 ==
    <<"3", " ", "p", "a", "c", "k", "e", "t", "s", " ", "t", "r", "a", "n", "s", "m", "i", "t", "t", "e", "d", ",", " ", "3", " ", "r", "e", "c", "e", "i", "v", "e", "d", ",", " ", "0", "%", " ", "p", "a", "c", "k", "e", "t", " ", "l", "o", "s", "s", "\n">>
Str_ping1 ==
    <<"3", " ", "p", "a", "c", "k", "e", "t", "s", " ", "t", "r", "a", "n", "s", "m", "i", "t", "t", "e", "d", ",", " ", "1", " ", "r", "e", "c", "e", "i", "v", "e", "d", ",", " ", "6", "6", "%", " ", "p", "a", "c", "k", "e", "t", " ", "l", "o", "s", "s", "\n">>

\* What the hosts of the model have: cores, kB of memory, GB of free disk.
CoreCounts == {1, 2, 3}
MemKBs == {1048576, 2097151, 2097152, 3145728}
DiskGBs == {19, 20, 21}

\* `nproc` prints the count and a newline.
NprocPrints(c) == Itoa(c) \o <<"\n">>

\* `cat /proc/meminfo | grep MemTotal` prints the MemTotal line.
MeminfoPrints(kb) == Str_MemTotalColon \o <<" ", " ", " ">> \o Itoa(kb) \o <<" ", "k", "B", "\n">>

\* `df -BG / | tail -1 | awk '{print $4}'` prints the field and, as awk's
\* print does, a newline (nl); the text without the newline is kept beside
\* it so that both ways of ending the output are covered.
DfPrints(g, nl) == Itoa(g) \o <<"G">> \o (IF nl THEN <<"\n">> ELSE <<>>)

CpuOutputs == {CmdErr, CmdOut(Str_nprocBad)} \cup {CmdOut(NprocPrints(c)) : c \in CoreCounts}

MemOutputs == {CmdErr, CmdOut(Str_memBad)} \cup {CmdOut(MeminfoPrints(kb)) : kb \in MemKBs}

DiskOutputs ==
    {CmdErr, CmdOut(Str_diskBad)}
        \cup {CmdOut(DfPrints(g, nl)) : g \in DiskGBs, nl \in BOOLEAN}

AllProfiles == [cpu : CpuOutputs, mem : MemOutputs, disk : DiskOutputs]

\* The host profiles a whole run draws from: enough of everything as the
\* commands really print it, enough of everything with df's output ending at
\* the G, and too little memory.
Profiles ==
    { [cpu |-> CmdOut(NprocPrints(2)), mem |-> CmdOut(MeminfoPrints(2097152)),
       disk |-> CmdOut(DfPrints(20, TRUE))],
      [cpu |-> CmdOut(NprocPrints(3)), mem |-> CmdOut(MeminfoPrints(3145728)),
       disk |-> CmdOut(DfPrints(21, FALSE))],
      [cpu |-> CmdOut(NprocPrints(2)), mem |-> CmdOut(MeminfoPrints(1048576)),
       disk |-> CmdOut(DfPrints(20, FALSE))] }

\* `ping -c 3 -W 2 <dst>`: all answered, some answered (exit status 0), none
\* answered (exit status 1, err # nil).
PingOutputs == {CmdOut(Str_ping3), CmdOut(Str_ping1), CmdErr}

KeyStates == {"ok", "unreadable", "unparsable"}

RequestedVersions == {"v1.27", "v1.29"}

---------------------------------------------------------------------------
(* pkg/preflight/checker.go                                                *)

minCPU == 2
minMemoryGB == 2
minDiskGB == 20

supportedVersions == <<"v1.28", "v1.29", "v1.30">>

EmptyMap == <<>>

\* A formatted message: its format, its %d arguments, its %v error.
Msg(fmt, nums) == [fmt |-> fmt, nums |-> nums, err |-> ""]
MsgErr(fmt, e) == [fmt |-> fmt, nums |-> <<>>, err |-> e]

\* Checker.sshConnect: "ok", or the error it wraps.
SshConnect(host) ==
    IF keyState = "unreadable" THEN "cannot read SSH key"
    ELSE IF keyState = "unparsable" THEN "cannot parse SSH key"
    ELSE IF ~dialOK[host] THEN "SSH dial failed"
    ELSE "ok"

NewSession(host, owner) == [host |-> host, owner |-> owner, open |-> TRUE, closes |-> 0]

\* ssh.Client.Close on session sid.
CloseSession(ss, sid) ==
    [ss EXCEPT ![sid] = [@ EXCEPT !.open = FALSE, !.closes = @ + 1]]

\* One thing done on the wire: a connection attempt, a command with what came
\* back, a close.
NoOut == [err |-> FALSE, out |-> <<>>]
Ev(op, host, sid, cmd, out) ==
    [op |-> op, host |-> host, sid |-> sid, cmd |-> cmd, out |-> out]

\* The variant runs only the call deferred last, as if each defer replaced the
\* one before it.
RunDeferred_LastOnly(ss, d) ==
    IF d = <<>> THEN ss ELSE CloseSession(ss, d[Len(d)])

\* The deferred calls of a returning function run last in, first out.
RECURSIVE RunDeferred(_, _)
RunDeferred(ss, d) ==
    IF d = <<>> THEN ss
    ELSE RunDeferred(CloseSession(ss, d[Len(d)]), SubSeq(d, 1, Len(d) - 1))

RECURSIVE DeferredEvents(_, _)
DeferredEvents(ss, d) ==
    IF d = <<>> THEN <<>>
    ELSE <<Ev("close", ss[d[Len(d)]].host, d[Len(d)], "", NoOut)>>
         \o DeferredEvents(ss, SubSeq(d, 1, Len(d) - 1))

\* The variant goes on to the later queries after a threshold is missed, and
\* reports the first one missed.
RequirementsOf_NoShortCircuit(host, prof) ==
    LET name    == <<"System Requirements - ", host>>
        cpuRan  == ~prof.cpu.err
        cpu     == Atoi(TrimSpace(prof.cpu.out))
        d1      == IF cpuRan THEN ("cpu_cores" :> cpu) ELSE EmptyMap
        matches == IF prof.mem.err THEN <<>> ELSE FindMemTotal(prof.mem.out)
        memGB   == (Atoi(matches) \div 1024) \div 1024
        d2      == IF matches # <<>> THEN ("memory_gb" :> memGB) @@ d1 ELSE d1
        diskRan == ~prof.disk.err
        diskGB  == Atoi(TrimSpace(TrimSuffix(prof.disk.out, Str_G)))
        d3      == IF diskRan THEN ("disk_available_gb" :> diskGB) @@ d2 ELSE d2
    IN  IF cpuRan /\ cpu < minCPU
        THEN [result |-> [Name |-> name, Passed |-> FALSE,
                          Message |-> Msg("Insufficient CPU cores: %d (minimum: %d)",
                                          <<cpu, minCPU>>),
                          Details |-> d1],
              cmds |-> <<"nproc", "meminfo", "df">>]
        ELSE IF matches # <<>> /\ memGB < minMemoryGB
        THEN [result |-> [Name |-> name, Passed |-> FALSE,
                          Message |-> Msg("Insufficient memory: %dGB (minimum: %dGB)",
                                          <<memGB, minMemoryGB>>),
                          Details |-> d2],
              cmds |-> <<"nproc", "meminfo", "df">>]
        ELSE IF diskRan /\ diskGB < minDiskGB
        THEN [result |-> [Name |-> name, Passed |-> FALSE,
                          Message |-> Msg("Insufficient disk space: %dGB (minimum: %dGB)",
                                          <<diskGB, minDiskGB>>),
                          Details |-> d3],
              cmds |-> <<"nproc", "meminfo", "df">>]
        ELSE [result |-> [Name |-> name, Passed |-> TRUE,
                          Message |-> Msg("System requirements met", <<>>),
                          Details |-> d3],
              cmds |-> <<"nproc", "meminfo", "df">>]

\* The body of CheckSystemRequirements' loop once the session is open: the
\* result it appends and the commands it ran.
RequirementsOf(host, prof) ==
    LET name    == <<"System Requirements - ", host>>
        cpuRan  == ~prof.cpu.err
        cpu     == Atoi(TrimSpace(prof.cpu.out))
        d1      == IF cpuRan THEN ("cpu_cores" :> cpu) ELSE EmptyMap
        matches == IF prof.mem.err THEN <<>> ELSE FindMemTotal(prof.mem.out)
        memGB   == (Atoi(matches) \div 1024) \div 1024
        d2      == IF matches # <<>> THEN ("memory_gb" :> memGB) @@ d1 ELSE d1
        diskRan == ~prof.disk.err
        diskGB  == Atoi(TrimSpace(TrimSuffix(prof.disk.out, Str_G)))
        d3      == IF diskRan THEN ("disk_available_gb" :> diskGB) @@ d2 ELSE d2
    IN  IF cpuRan /\ cpu < minCPU
        THEN [result |-> [Name |-> name, Passed |-> FALSE,
                          Message |-> Msg("Insufficient CPU cores: %d (minimum: %d)",
                                          <<cpu, minCPU>>),
                          Details |-> d1],
              cmds |-> <<"nproc">>]
        ELSE IF matches # <<>> /\ memGB < minMemoryGB
        THEN [result |-> [Name |-> name, Passed |-> FALSE,
                          Message |-> Msg("Insufficient memory: %dGB (minimum: %dGB)",
                                          <<memGB, minMemoryGB>>),
                          Details |-> d2],
              cmds |-> <<"nproc", "meminfo">>]
        ELSE IF diskRan /\ diskGB < minDiskGB
        THEN [result |-> [Name |-> name, Passed |-> FALSE,
                          Message |-> Msg("Insufficient disk space: %dGB (minimum: %dGB)",
                                          <<diskGB, minDiskGB>>),
                          Details |-> d3],
              cmds |-> <<"nproc", "meminfo", "df">>]
        ELSE [result |-> [Name |-> name, Passed |-> TRUE,
                          Message |-> Msg("System requirements met", <<>>),
                          Details |-> d3],
              cmds |-> <<"nproc", "meminfo", "df">>]

\* The variant skips only a host paired with itself.
SkipPair_SelfOnly(a, b) == a = b

\* The test that makes CheckNetworkConnectivity's inner loop skip a pair.
SkipPair(a, b) == a >= b

\* The result of one pair whose source session is open.
PingResult(src, dst, ping) ==
    [Name |-> <<"Network Connectivity - ", src, " to ", dst>>,
     Passed |-> ~(ping.err \/ ~Contains(ping.out, Str_3received)),
     Message |-> IF ping.err \/ ~Contains(ping.out, Str_3received)
                 THEN Msg("Ping failed between nodes", <<>>)
                 ELSE Msg("Network connectivity verified", <<>>),
     Details |-> EmptyMap]

\* CheckKubernetesVersion; it has no parameter and reads no field.
KubernetesVersionResult ==
    [Name |-> <<"Kubernetes Version Compatibility">>,
     Passed |-> TRUE,
     Message |-> Msg("Supported versions: %s", <<>>),
     Details |-> ("supported_versions" :> supportedVersions)]

envVars == <<hosts, keyState, dialOK, profile, pingOut, requested, ctxDone,
             inventory, has, cidr>>
healthVars == <<masters, nodes, sshStub, health, nodeStatus>>

NoReturn == [value |-> <<>>, err |-> "none"]

\* The exported method is entered: its local slice is empty.
Enter(method, first) ==
    /\ pc = "idle"
    /\ entry' = method
    /\ pc' = first
    /\ i' = 1 /\ j' = 1
    /\ fnResults' = <<>>
    /\ results' = <<>>
    /\ UNCHANGED <<returned, sessions, deferred, events, envVars, healthVars>>

CallRunAll == Enter("RunAll", "CheckSSHConnectivity")

CallCheckSystemRequirements == Enter("CheckSystemRequirements", "CheckSystemRequirements")

\* The variant of ReturnSlice below that puts the returned slice in front of
\* what RunAll has collected.
ReturnSlice_Prepend(next) ==
    /\ sessions' = RunDeferred(sessions, deferred)
    /\ events' = events \o DeferredEvents(sessions, deferred)
    /\ deferred' = <<>>
    /\ fnResults' = <<>>
    /\ i' = 1 /\ j' = 1
    /\ IF entry = "RunAll"
       THEN /\ results' = fnResults \o results
            /\ pc' = next
            /\ UNCHANGED returned
       ELSE /\ returned' = [value |-> fnResults, err |-> "nil"]
            /\ pc' = "done"
            /\ UNCHANGED results
    /\ UNCHANGED <<entry, envVars, healthVars>>

\* A check returns its slice: RunAll appends it and goes on to `next`; called
\* on its own, the slice is what the caller gets.  The function's deferred
\* closes run as it returns.
ReturnSlice(next) ==
    /\ sessions' = RunDeferred(sessions, deferred)
    /\ events' = events \o DeferredEvents(sessions, deferred)
    /\ deferred' = <<>>
    /\ fnResults' = <<>>
    /\ i' = 1 /\ j' = 1
    /\ IF entry = "RunAll"
       THEN /\ results' = results \o fnResults
            /\ pc' = next
            /\ UNCHANGED returned
       ELSE /\ returned' = [value |-> fnResults, err |-> "nil"]
            /\ pc' = "done"
            /\ UNCHANGED results
    /\ UNCHANGED <<entry, envVars, healthVars>>

\* One iteration of CheckSSHConnectivity's loop.
SSHConnectivityStep ==
    /\ pc = "CheckSSHConnectivity"
    /\ i <= Len(hosts)
    /\ LET host == hosts[i]
           c    == SshConnect(host)
           sid  == Len(sessions) + 1
           name == <<"SSH Connectivity - ", host>>
       IN  IF c # "ok"
           THEN /\ fnResults' = Append(fnResults,
                       [Name |-> name, Passed |-> FALSE,
                        Message |-> MsgErr("Failed to connect: %v", c),
                        Details |-> EmptyMap])
                /\ events' = Append(events, Ev("connect-failed", host, 0, c, NoOut))
                /\ UNCHANGED sessions
           ELSE /\ sessions' = CloseSession(Append(sessions,
                                   NewSession(host, "CheckSSHConnectivity")), sid)
                /\ fnResults' = Append(fnResults,
                       [Name |-> name, Passed |-> TRUE,
                        Message |-> Msg("SSH connection successful", <<>>),
                        Details |-> EmptyMap])
                /\ events' = events \o <<Ev("connect", host, sid, "", NoOut),
                                         Ev("close", host, sid, "", NoOut)>>
    /\ i' = i + 1
    /\ UNCHANGED <<entry, pc, j, results, returned, deferred, envVars, healthVars>>

SSHConnectivityReturn ==
    /\ pc = "CheckSSHConnectivity"
    /\ i > Len(hosts)
    /\ ReturnSlice("CheckSystemRequirements")

OutputOf(prof, cmd) ==
    CASE cmd = "nproc" -> prof.cpu
      [] cmd = "meminfo" -> prof.mem
      [] cmd = "df" -> prof.disk

RECURSIVE RunEvents(_, _, _, _)
RunEvents(host, sid, cmds, prof) ==
    IF cmds = <<>> THEN <<>>
    ELSE <<Ev("run", host, sid, Head(cmds), OutputOf(prof, Head(cmds)))>>
         \o RunEvents(host, sid, Tail(cmds), prof)

\* `continue` after a failed connection: the loop goes on with the next host.
\* The variant leaves the loop instead, as a `break` or `return` would.
ContinueAfterConnectError_Break(k) == Len(hosts) + 1
ContinueAfterConnectError(k) == k + 1

\* One iteration of CheckSystemRequirements' loop.
SystemRequirementsStep ==
    /\ pc = "CheckSystemRequirements"
    /\ i <= Len(hosts)
    /\ LET host == hosts[i]
           c    == SshConnect(host)
           sid  == Len(sessions) + 1
           body == RequirementsOf(host, profile[host])
       IN  IF c # "ok"
           THEN /\ fnResults' = Append(fnResults,
                       [Name |-> <<"System Requirements - ", host>>, Passed |-> FALSE,
                        Message |-> MsgErr("Cannot connect: %v", c),
                        Details |-> EmptyMap])
                /\ events' = Append(events, Ev("connect-failed", host, 0, c, NoOut))
                /\ UNCHANGED <<sessions, deferred>>
           ELSE /\ sessions' = Append(sessions, NewSession(host, "CheckSystemRequirements"))
                /\ deferred' = Append(deferred, sid)
                /\ fnResults' = Append(fnResults, body.result)
                /\ events' = events \o <<Ev("connect", host, sid, "", NoOut)>>
                                    \o RunEvents(host, sid, body.cmds, profile[host])
    /\ i' = IF SshConnect(hosts[i]) # "ok" THEN ContinueAfterConnectError(i) ELSE i + 1
    /\ UNCHANGED <<entry, pc, j, results, returned, envVars, healthVars>>

SystemRequirementsReturn ==
    /\ pc = "CheckSystemRequirements"
    /\ i > Len(hosts)
    /\ ReturnSlice("CheckNetworkConnectivity")

\* One iteration of CheckNetworkConnectivity's inner loop, for the pair of
\* positions (i, j).
NetworkConnectivityStep ==
    /\ pc = "CheckNetworkConnectivity"
    /\ Len(hosts) >= 2
    /\ i <= Len(hosts)
    /\ LET src == hosts[i]
           dst == hosts[j]
           c   == SshConnect(src)
           sid == Len(sessions) + 1
       IN  IF SkipPair(i, j)
           THEN UNCHANGED <<fnResults, sessions, deferred, events>>
           ELSE IF c # "ok"
           THEN /\ fnResults' = Append(fnResults,
                       [Name |-> <<"Network Connectivity - ", src, " to ", dst>>,
                        Passed |-> FALSE,
                        Message |-> MsgErr("Cannot connect to source: %v", c),
                        Details |-> EmptyMap])
                /\ events' = Append(events, Ev("connect-failed", src, 0, c, NoOut))
                /\ UNCHANGED <<sessions, deferred>>
           ELSE /\ sessions' = Append(sessions, NewSession(src, "CheckNetworkConnectivity"))
                /\ deferred' = Append(deferred, sid)
                /\ fnResults' = Append(fnResults, PingResult(src, dst, pingOut[dst]))
                /\ events' = events \o <<Ev("connect", src, sid, "", NoOut),
                                         Ev("run", src, sid, "ping", pingOut[dst])>>
    /\ IF j < Len(hosts)
       THEN j' = j + 1 /\ i' = i
       ELSE j' = 1 /\ i' = i + 1
    /\ UNCHANGED <<entry, pc, results, returned, envVars, healthVars>>

NetworkConnectivityReturn ==
    /\ pc = "CheckNetworkConnectivity"
    /\ Len(hosts) < 2 \/ i > Len(hosts)
    /\ ReturnSlice("CheckKubernetesVersion")

KubernetesVersionStep ==
    /\ pc = "CheckKubernetesVersion"
    /\ results' = Append(results, KubernetesVersionResult)
    /\ pc' = "RunAllReturn"
    /\ UNCHANGED <<entry, i, j, fnResults, returned, sessions, deferred, events,
                   envVars, healthVars>>

RunAllReturn ==
    /\ pc = "RunAllReturn"
    /\ returned' = [value |-> results, err |-> "nil"]
    /\ pc' = "done"
    /\ UNCHANGED <<entry, i, j, fnResults, results, sessions, deferred, events,
                   envVars, healthVars>>

EmptyHealth ==
    [Healthy |-> FALSE, Components |-> <<>>, NodeCount |-> 0, ReadyNodes |-> 0]

\* What Validate's four flags are before a line is read.
NoFlags == [all |-> FALSE, controlPlane |-> FALSE, node |-> FALSE, etcd |-> FALSE]

\* No inventory file and no network string are at hand: neither
\* Validator.Validate nor Calculator.CalculateSubnets can be called.
NoInventory == [readable |-> FALSE, readErr |-> FALSE, text |-> <<>>]

\* Nothing has been called yet.
Idle ==
    /\ entry = "none"
    /\ pc = "idle"
    /\ i = 1 /\ j = 1
    /\ fnResults = <<>>
    /\ results = <<>>
    /\ returned = NoReturn
    /\ sessions = <<>>
    /\ deferred = <<>>
    /\ events = <<>>
    /\ health = EmptyHealth
    /\ nodeStatus = <<>>
    /\ ctxDone = FALSE
    /\ has = NoFlags

NoMonitor ==
    /\ masters = <<>>
    /\ nodes = <<>>
    /\ sshStub = TRUE

\* A Checker built by NewChecker over a roster, and the remote side it meets.
\* With a key that cannot be used nothing of the remote side is ever read.
Init ==
    /\ Idle
    /\ inventory = NoInventory
    /\ cidr = <<>>
    /\ NoMonitor
    /\ hosts \in Rosters
    /\ keyState \in KeyStates
    /\ dialOK \in [Hosts -> BOOLEAN]
    /\ profile \in [Hosts -> Profiles]
    /\ pingOut \in [Hosts -> PingOutputs]
    /\ requested \in RequestedVersions
    /\ keyState # "ok" =>
          /\ dialOK = [h \in Hosts |-> TRUE]
          /\ \A h \in Hosts : profile[h] = profile["10.0.0.1"]
                              /\ pingOut[h] = CmdOut(Str_ping3)

Next ==
    \/ CallRunAll
    \/ SSHConnectivityStep
    \/ SSHConnectivityReturn
    \/ SystemRequirementsStep
    \/ SystemRequirementsReturn
    \/ NetworkConnectivityStep
    \/ NetworkConnectivityReturn
    \/ KubernetesVersionStep
    \/ RunAllReturn

Spec == Init /\ [][Next]_vars

\* CheckSystemRequirements called on one host, over every combination of
\* command outputs.
InitReq ==
    /\ Idle
    /\ inventory = NoInventory
    /\ cidr = <<>>
    /\ NoMonitor
    /\ hosts \in {<<h>> : h \in Hosts}
    /\ keyState = "ok"
    /\ dialOK \in {[h \in Hosts |-> b] : b \in BOOLEAN}
    /\ \E p \in AllProfiles : profile = [h \in Hosts |-> p]
    /\ pingOut = [h \in Hosts |-> CmdOut(Str_ping3)]
    /\ requested = "v1.29"

NextReq ==
    \/ CallCheckSystemRequirements
    \/ SystemRequirementsStep
    \/ SystemRequirementsReturn

SpecReq == InitReq /\ [][NextReq]_vars

\* The roster of the end-to-end capacity scenario.
ScenarioHosts == {"10.0.0.1", "10.0.0.2", "10.0.0.3"}

\* What a host prints that meets every minimum, and what one prints that has
\* 1048576 kB of memory and enough cores.
MeetingProfiles ==
    {[cpu |-> CmdOut(NprocPrints(c)), mem |-> CmdOut(MeminfoPrints(kb)),
      disk |-> CmdOut(DfPrints(g, nl))] :
        c \in {n \in CoreCounts : n >= minCPU},
        kb \in {m \in MemKBs : m >= minMemoryGB * 1024 * 1024},
        g \in {d \in DiskGBs : d >= minDiskGB},
        nl \in BOOLEAN}

LowMemoryProfiles ==
    {[cpu |-> CmdOut(NprocPrints(c)), mem |-> CmdOut(MeminfoPrints(1048576)),
      disk |-> CmdOut(DfPrints(g, nl))] :
        c \in {n \in CoreCounts : n >= minCPU}, g \in DiskGBs, nl \in BOOLEAN}

\* CheckSystemRequirements called on the scenario's roster, every host
\* reachable.
InitScenario ==
    /\ Idle
    /\ inventory = NoInventory
    /\ cidr = <<>>
    /\ NoMonitor
    /\ hosts = <<"10.0.0.1", "10.0.0.2", "10.0.0.3">>
    /\ keyState = "ok"
    /\ dialOK = [h \in ScenarioHosts |-> TRUE]
    /\ \E p1 \in MeetingProfiles, p2 \in LowMemoryProfiles, p3 \in MeetingProfiles :
          profile = [h \in ScenarioHosts |->
                        IF h = "10.0.0.1" THEN p1 ELSE IF h = "10.0.0.2" THEN p2 ELSE p3]
    /\ pingOut = [h \in ScenarioHosts |-> CmdOut(Str_ping3)]
    /\ requested = "v1.29"

SpecScenario == InitScenario /\ [][NextReq]_vars

\* Host profiles for the capacity check of several hosts: too few cores, a
\* core count that cannot be read, too little memory, too little disk, enough
\* of everything, and commands that all fail.
CapProfiles ==
    { [cpu |-> CmdOut(NprocPrints(1)), mem |-> CmdOut(MeminfoPrints(1048576)),
       disk |-> CmdOut(DfPrints(19, FALSE))],
      [cpu |-> CmdOut(Str_nprocBad), mem |-> CmdOut(MeminfoPrints(3145728)),
       disk |-> CmdOut(DfPrints(21, FALSE))],
      [cpu |-> CmdOut(NprocPrints(2)), mem |-> CmdOut(MeminfoPrints(2097151)),
       disk |-> CmdOut(DfPrints(19, TRUE))],
      [cpu |-> CmdOut(NprocPrints(3)), mem |-> CmdOut(MeminfoPrints(2097152)),
       disk |-> CmdOut(DfPrints(19, FALSE))],
      [cpu |-> CmdOut(NprocPrints(3)), mem |-> CmdOut(MeminfoPrints(3145728)),
       disk |-> CmdOut(DfPrints(21, FALSE))],
      [cpu |-> CmdErr, mem |-> CmdErr, disk |-> CmdErr] }

\* CheckSystemRequirements called on a roster whose hosts differ in what they
\* have and in whether they can be reached.
InitCap ==
    /\ Idle
    /\ inventory = NoInventory
    /\ cidr = <<>>
    /\ NoMonitor
    /\ hosts \in UNION {[1..n -> Hosts] : n \in 0..MaxCapHosts}
    /\ keyState = "ok"
    /\ dialOK \in [Hosts -> BOOLEAN]
    /\ profile \in [Hosts -> CapProfiles]
    /\ pingOut = [h \in Hosts |-> CmdOut(Str_ping3)]
    /\ requested = "v1.29"

SpecCap == InitCap /\ [][NextReq]_vars

---------------------------------------------------------------------------
(* pkg/health/monitor.go and the remote side it meets.                     *)

Str_active ==
    <<"a", "c", "t", "i", "v", "e", "\n">>
Str_inactiveOk ==
    <<"i", "n", "a", "c", "t", "i", "v", "e", "\n", "o", "k">>
Str_inactiveOther ==
    <<"i", "n", "a", "c", "t", "i", "v", "e", "\n", "u", "p", "\n">>
Str_apiOdd ==
    <<"h", "e", "a", "l", "t", "h", "z", " ", "c", "h", "e", "c", "k", " ", "p", "a", "s", "s", "e", "d", "\n">>
Str_etcdHealthy ==
    <<"1", "2", "7", ".", "0", ".", "0", ".", "1", ":", "2", "3", "7", "9", " ", "i", "s", " ", "h", "e", "a", "l", "t", "h", "y", "\n">>
Str_etcdUnhealthy ==
    <<"1", "2", "7", ".", "0", ".", "0", ".", "1", ":", "2", "3", "7", "9", " ", "i", "s", " ", "u", "n", "h", "e", "a", "l", "t", "h", "y", "\n">>
Str_etcdMixed ==
    <<"1", "0", ".", "0", ".", "0", ".", "1", ":", "2", "3", "7", "9", " ", "i", "s", " ", "h", "e", "a", "l", "t", "h", "y", "\n", "1", "0", ".", "0", ".", "0", ".", "2", ":", "2", "3", "7", "9", " ", "i", "s", " ", "u", "n", "h", "e", "a", "l", "t", "h", "y", "\n">>
Str_etcdSkipped ==
    <<"e", "t", "c", "d", "-", "c", "h", "e", "c", "k", "-", "s", "k", "i", "p", "p", "e", "d", "\n">>
Str_listClaim ==
    <<"m", "a", "s", "t", "e", "r", "-", "0", " ", "R", "e", "a", "d", "y", "\n", "n", "o", "d", "e", "-", "0", " ", "N", "o", "t", "R", "e", "a", "d", "y", "\n", "n", "o", "d", "e", "-", "1", " ", "R", "e", "a", "d", "y", "\n">>
Str_listOne ==
    <<"m", "a", "s", "t", "e", "r", "-", "0", " ", " ", " ", "R", "e", "a", "d", "y", " ", " ", " ", "c", "o", "n", "t", "r", "o", "l", "-", "p", "l", "a", "n", "e", " ", " ", " ", "5", "d", " ", " ", " ", "v", "1", ".", "2", "9", ".", "0", "\n">>
Str_listEmpty ==
    <<>>
Str_listNoKubectl ==
    <<"k", "u", "b", "e", "c", "t", "l", "-", "n", "o", "t", "-", "a", "v", "a", "i", "l", "a", "b", "l", "e", "\n">>
Str_listShort ==
    <<"m", "a", "s", "t", "e", "r", "-", "0", " ", "R", "e", "a", "d", "y", "\n", "\n", "n", "o", "d", "e", "-", "0", "\n">>
Str_listCordoned ==
    <<"n", "o", "d", "e", "-", "0", " ", "R", "e", "a", "d", "y", ",", "S", "c", "h", "e", "d", "u", "l", "i", "n", "g", "D", "i", "s", "a", "b", "l", "e", "d", "\n", "n", "o", "d", "e", "-", "1", " ", "U", "n", "k", "n", "o", "w", "n", "\n">>
Str_ok ==
    <<"o", "k">>
Str_activeWord ==
    <<"a", "c", "t", "i", "v", "e">>
Str_healthy ==
    <<"h", "e", "a", "l", "t", "h", "y">>
Str_unhealthy ==
    <<"u", "n", "h", "e", "a", "l", "t", "h", "y">>
Str_kubectlNotAvailable ==
    <<"k", "u", "b", "e", "c", "t", "l", "-", "n", "o", "t", "-", "a", "v", "a", "i", "l", "a", "b", "l", "e">>
Str_Ready ==
    <<"R", "e", "a", "d", "y">>
Str_NodeDash ==
    <<"N", "o", "d", "e", " ", "-", " ">>
Str_NodeStatus ==
    <<"N", "o", "d", "e", " ", "S", "t", "a", "t", "u", "s">>
Str_kubeletDash ==
    <<"k", "u", "b", "e", "l", "e", "t", " ", "-", " ">>
Str_APIServer ==
    <<"K", "u", "b", "e", "r", "n", "e", "t", "e", "s", " ", "A", "P", "I", " ", "S", "e", "r", "v", "e", "r">>
Str_etcd ==
    <<"e", "t", "c", "d">>

MasterNames == << <<"m", "1">>, <<"m", "2">>, <<"m", "3">>, <<"m", "4">> >>
NodeNames == << <<"n", "1">>, <<"n", "2">>, <<"n", "3">>, <<"n", "4">>, <<"n", "5">> >>

\* `sudo systemctl is-active kube-apiserver || kubectl get --raw /healthz`
ApiOutputs == {CmdErr, CmdOut(Str_active), CmdOut(Str_inactiveOk),
               CmdOut(Str_inactiveOther), CmdOut(Str_apiOdd)}

\* `sudo ETCDCTL_API=3 etcdctl endpoint health 2>/dev/null || echo 'etcd-check-skipped'`
EtcdOutputs == {CmdErr, CmdOut(Str_etcdHealthy), CmdOut(Str_etcdUnhealthy),
                CmdOut(Str_etcdMixed), CmdOut(Str_etcdSkipped)}

\* `sudo systemctl is-active kubelet`
KubeletOutputs == {CmdErr, CmdOut(Str_active)}

\* `kubectl get nodes --no-headers 2>/dev/null || echo 'kubectl-not-available'`
NodeListings == {CmdErr, CmdOut(Str_listClaim), CmdOut(Str_listOne), CmdOut(Str_listEmpty),
                 CmdOut(Str_listNoKubectl), CmdOut(Str_listShort),
                 CmdOut(Str_listCordoned)}

\* strings.Split(s, sep) for a one-character separator.
RECURSIVE Split(_, _)
Split(s, sep) ==
    LET at == {k \in 1..Len(s) : s[k] = sep}
    IN  IF at = {} THEN <<s>>
        ELSE LET k == CHOOSE m \in at : \A n \in at : m <= n
             IN  <<SubSeq(s, 1, k - 1)>> \o Split(SubSeq(s, k + 1, Len(s)), sep)

\* The length of the run of non-space characters of s that starts at k.
RECURSIVE WordRun(_, _)
WordRun(s, k) ==
    IF k <= Len(s) /\ ~IsSpace(s[k]) THEN 1 + WordRun(s, k + 1) ELSE 0

\* strings.Fields
RECURSIVE Fields(_)
Fields(s) ==
    LET t == TrimLeft(s)
    IN  IF t = <<>> THEN <<>>
        ELSE <<SubSeq(t, 1, WordRun(t, 1))>>
             \o Fields(SubSeq(t, WordRun(t, 1) + 1, Len(t)))

Status(name, healthy, message) ==
    [Name |-> name, Healthy |-> healthy, Message |-> message, Details |-> EmptyMap]

\* The variant is a connector that can succeed, whatever sshStub says.
MonitorSshConnect_CanSucceed(host) ==
    {"ok", "SSH dial failed"}

\* Monitor.sshConnect: the outcomes a call can have.  The source holds a stub
\* that always fails and says the real one "would use same logic" as the
\* preflight checker's; sshStub tells which of the two is linked.
MonitorSshConnect(host) ==
    IF sshStub THEN {"SSH connection not implemented in this stub"}
    ELSE {"ok", "SSH dial failed"}

\* checkAPIServer once the command has come back.
ApiStatus(r) ==
    IF r.err THEN Status(Str_APIServer, FALSE, Msg("API server is not responding", <<>>))
    ELSE IF Contains(r.out, Str_ok) \/ Contains(r.out, Str_activeWord)
    THEN Status(Str_APIServer, TRUE, Msg("API server is healthy", <<>>))
    ELSE Status(Str_APIServer, FALSE, Msg("API server status unknown", <<>>))

\* checkEtcd once the command has come back.
EtcdStatus(r) ==
    IF r.err \/ Contains(r.out, Str_unhealthy)
    THEN Status(Str_etcd, FALSE, Msg("etcd cluster is unhealthy", <<>>))
    ELSE IF Contains(r.out, Str_healthy)
    THEN Status(Str_etcd, TRUE, Msg("etcd cluster is healthy", <<>>))
    ELSE Status(Str_etcd, TRUE,
                Msg("etcd status check skipped (may not be running on this node)", <<>>))

\* checkKubelet's loop body once the command has come back.
KubeletStatus(host, r) ==
    IF r.err \/ ~Contains(r.out, Str_activeWord)
    THEN Status(Str_kubeletDash \o host, FALSE, Msg("kubelet is not running", <<>>))
    ELSE Status(Str_kubeletDash \o host, TRUE, Msg("kubelet is running", <<>>))

\* The test checkNodeStatus applies to a node's condition field.
NodeIsReady(condition) == Contains(condition, Str_Ready)

\* The variant asks a line for three fields before it reports it.
RECURSIVE NodeLineStatuses_ThreeFields(_)
NodeLineStatuses_ThreeFields(lines) ==
    IF lines = <<>> THEN <<>>
    ELSE LET line   == Head(lines)
             fields == Fields(line)
         IN  IF line = <<>> \/ Len(fields) < 3
             THEN NodeLineStatuses_ThreeFields(Tail(lines))
             ELSE <<Status(Str_NodeDash \o fields[1], NodeIsReady(fields[2]),
                           IF NodeIsReady(fields[2])
                           THEN Msg("Node is Ready", <<>>)
                           ELSE MsgErr("Node status: %s", fields[2]))>>
                  \o NodeLineStatuses_ThreeFields(Tail(lines))

\* checkNodeStatus' loop over the lines of the listing.
RECURSIVE NodeLineStatuses(_)
NodeLineStatuses(lines) ==
    IF lines = <<>> THEN <<>>
    ELSE LET line   == Head(lines)
             fields == Fields(line)
         IN  IF line = <<>> \/ Len(fields) < 2
             THEN NodeLineStatuses(Tail(lines))
             ELSE <<Status(Str_NodeDash \o fields[1], NodeIsReady(fields[2]),
                           IF NodeIsReady(fields[2])
                           THEN Msg("Node is Ready", <<>>)
                           ELSE MsgErr("Node status: %s", fields[2]))>>
                  \o NodeLineStatuses(Tail(lines))

\* checkNodeStatus once the command has come back.
NodeStatuses(r) ==
    IF r.err \/ Contains(r.out, Str_kubectlNotAvailable)
    THEN <<Status(Str_NodeStatus, TRUE,
                  Msg("kubectl not available - cluster may still be initializing", <<>>))>>
    ELSE NodeLineStatuses(Split(TrimSpace(r.out), "\n"))

\* Monitor.countReadyNodes
RECURSIVE countReadyNodes(_)
countReadyNodes(statuses) ==
    IF statuses = <<>> THEN 0
    ELSE (IF HasPrefix(Head(statuses).Name, Str_NodeDash) /\ Head(statuses).Healthy
          THEN 1 ELSE 0) + countReadyNodes(Tail(statuses))

\* The variant lets every component overwrite the verdict, so that the last
\* one decides.
OverallHealthy_LastWins(components) ==
    components = <<>> \/ components[Len(components)].Healthy

\* The loop of CheckClusterHealth that determines overall health.
OverallHealthy(components) ==
    \A k \in 1..Len(components) : components[k].Healthy

\* allHosts := append(m.masters, m.nodes...)
allHosts == masters \o nodes

preflightVars == <<hosts, keyState, dialOK, profile, pingOut, requested, j, results,
                   ctxDone, inventory, has, cidr>>

CallCheckClusterHealth ==
    /\ pc = "idle"
    /\ entry' = "CheckClusterHealth"
    /\ pc' = "checkAPIServer"
    /\ health' = [EmptyHealth EXCEPT !.NodeCount = Len(masters) + Len(nodes)]
    /\ UNCHANGED <<i, fnResults, returned, sessions, deferred, events, nodeStatus,
                   masters, nodes, sshStub, preflightVars>>

\* The variant talks to the last master of the roster.
OneShot_LastMaster(owner, cmd, c, r) ==
    LET host == masters[Len(masters)]
        sid  == Len(sessions) + 1
    IN  IF c # "ok"
        THEN /\ events' = Append(events, Ev("connect-failed", host, 0, c, NoOut))
             /\ UNCHANGED sessions
        ELSE /\ sessions' = CloseSession(Append(sessions, NewSession(host, owner)), sid)
             /\ events' = events \o <<Ev("connect", host, sid, "", NoOut),
                                      Ev("run", host, sid, cmd, r),
                                      Ev("close", host, sid, "", NoOut)>>

\* A function that talks to masters[0] over one session and closes it as it
\* returns: what happens to the sessions and the wire when the connection
\* gave c and the command gave r.
OneShot(owner, cmd, c, r) ==
    LET host == masters[1]
        sid  == Len(sessions) + 1
    IN  IF c # "ok"
        THEN /\ events' = Append(events, Ev("connect-failed", host, 0, c, NoOut))
             /\ UNCHANGED sessions
        ELSE /\ sessions' = CloseSession(Append(sessions, NewSession(host, owner)), sid)
             /\ events' = events \o <<Ev("connect", host, sid, "", NoOut),
                                      Ev("run", host, sid, cmd, r),
                                      Ev("close", host, sid, "", NoOut)>>

AppendComponents(statuses) ==
    health' = [health EXCEPT !.Components = @ \o statuses]

\* The variant reports the missing control plane as healthy.
NoMastersStatus_Healthy ==
    Status(Str_APIServer, TRUE, Msg("No master nodes configured", <<>>))

\* What checkAPIServer returns when len(m.masters) == 0.
NoMastersStatus ==
    Status(Str_APIServer, FALSE, Msg("No master nodes configured", <<>>))

\* apiStatus := m.checkAPIServer(); appended to health.Components
CheckAPIServer ==
    /\ pc = "checkAPIServer"
    /\ pc' = "checkEtcd"
    /\ IF Len(masters) = 0
       THEN /\ AppendComponents(<<NoMastersStatus>>)
            /\ UNCHANGED <<sessions, events>>
       ELSE \E c \in MonitorSshConnect(masters[1]) :
              IF c # "ok"
              THEN /\ AppendComponents(<<Status(Str_APIServer, FALSE,
                                         MsgErr("Cannot connect to master: %v", c))>>)
                   /\ OneShot("checkAPIServer", "is-active kube-apiserver", c, NoOut)
              ELSE \E r \in ApiOutputs :
                   /\ AppendComponents(<<ApiStatus(r)>>)
                   /\ OneShot("checkAPIServer", "is-active kube-apiserver", c, r)
    /\ UNCHANGED <<entry, i, fnResults, returned, deferred, nodeStatus,
                   masters, nodes, sshStub, preflightVars>>

\* etcdStatus := m.checkEtcd(); appended to health.Components
CheckEtcd ==
    /\ pc = "checkEtcd"
    /\ pc' = "checkKubelet"
    /\ i' = 1
    /\ fnResults' = <<>>
    /\ IF Len(masters) = 0
       THEN /\ AppendComponents(<<Status(Str_etcd, FALSE,
                                         Msg("No etcd nodes configured", <<>>))>>)
            /\ UNCHANGED <<sessions, events>>
       ELSE \E c \in MonitorSshConnect(masters[1]) :
              IF c # "ok"
              THEN /\ AppendComponents(<<Status(Str_etcd, FALSE,
                                         MsgErr("Cannot connect to etcd node: %v", c))>>)
                   /\ OneShot("checkEtcd", "etcdctl endpoint health", c, NoOut)
              ELSE \E r \in EtcdOutputs :
                   /\ AppendComponents(<<EtcdStatus(r)>>)
                   /\ OneShot("checkEtcd", "etcdctl endpoint health", c, r)
    /\ UNCHANGED <<entry, returned, deferred, nodeStatus,
                   masters, nodes, sshStub, preflightVars>>

\* `continue` after a failed connection in checkKubelet's loop: the next host
\* is probed.  The variant ends the loop instead.
KubeletContinue_Break(k) == Len(allHosts) + 1
KubeletContinue(k) == k + 1

\* One iteration of checkKubelet's loop.
CheckKubeletStep ==
    /\ pc = "checkKubelet"
    /\ i <= Len(allHosts)
    /\ LET host == allHosts[i]
           sid  == Len(sessions) + 1
       IN  \E c \in MonitorSshConnect(host) :
             IF c # "ok"
             THEN /\ fnResults' = Append(fnResults,
                         Status(Str_kubeletDash \o host, FALSE,
                                MsgErr("Cannot connect: %v", c)))
                  /\ events' = Append(events, Ev("connect-failed", host, 0, c, NoOut))
                  /\ i' = KubeletContinue(i)
                  /\ UNCHANGED <<sessions, deferred>>
             ELSE \E r \in KubeletOutputs :
                  /\ i' = i + 1
                  /\ fnResults' = Append(fnResults, KubeletStatus(host, r))
                  /\ sessions' = Append(sessions, NewSession(host, "checkKubelet"))
                  /\ deferred' = Append(deferred, sid)
                  /\ events' = events \o <<Ev("connect", host, sid, "", NoOut),
                                           Ev("run", host, sid, "is-active kubelet", r)>>
    /\ UNCHANGED <<entry, pc, returned, health, nodeStatus,
                   masters, nodes, sshStub, preflightVars>>

\* checkKubelet returns; kubeletStatus is appended to health.Components
CheckKubeletReturn ==
    /\ pc = "checkKubelet"
    /\ i > Len(allHosts)
    /\ pc' = "checkNodeStatus"
    /\ AppendComponents(fnResults)
    /\ fnResults' = <<>>
    /\ i' = 1
    /\ sessions' = RunDeferred(sessions, deferred)
    /\ events' = events \o DeferredEvents(sessions, deferred)
    /\ deferred' = <<>>
    /\ UNCHANGED <<entry, returned, nodeStatus, masters, nodes, sshStub, preflightVars>>

\* nodeStatus := m.checkNodeStatus(); appended to health.Components
CheckNodeStatus ==
    /\ pc = "checkNodeStatus"
    /\ pc' = "countReadyNodes"
    /\ IF Len(masters) = 0
       THEN /\ nodeStatus' = <<>>
            /\ UNCHANGED <<sessions, events>>
       ELSE \E c \in MonitorSshConnect(masters[1]) :
              IF c # "ok"
              THEN /\ nodeStatus' = <<Status(Str_NodeStatus, FALSE,
                                      MsgErr("Cannot connect to master: %v", c))>>
                   /\ OneShot("checkNodeStatus", "kubectl get nodes", c, NoOut)
              ELSE \E r \in NodeListings :
                   /\ nodeStatus' = NodeStatuses(r)
                   /\ OneShot("checkNodeStatus", "kubectl get nodes", c, r)
    /\ AppendComponents(nodeStatus')
    /\ UNCHANGED <<entry, i, fnResults, returned, deferred,
                   masters, nodes, sshStub, preflightVars>>

\* health.ReadyNodes = m.countReadyNodes(nodeStatus)
CountReadyNodes ==
    /\ pc = "countReadyNodes"
    /\ pc' = "overall"
    /\ health' = [health EXCEPT !.ReadyNodes = countReadyNodes(nodeStatus)]
    /\ UNCHANGED <<entry, i, fnResults, returned, sessions, deferred, events, nodeStatus,
                   masters, nodes, sshStub, preflightVars>>

\* The loop that determines overall health.
DetermineOverallHealth ==
    /\ pc = "overall"
    /\ pc' = "CheckClusterHealthReturn"
    /\ health' = [health EXCEPT !.Healthy = OverallHealthy(health.Components)]
    /\ UNCHANGED <<entry, i, fnResults, returned, sessions, deferred, events, nodeStatus,
                   masters, nodes, sshStub, preflightVars>>

\* return health, nil
CheckClusterHealthReturn ==
    /\ pc = "CheckClusterHealthReturn"
    /\ pc' = "done"
    /\ returned' = [value |-> health, err |-> "nil"]
    /\ UNCHANGED <<entry, i, fnResults, sessions, deferred, events, health, nodeStatus,
                   masters, nodes, sshStub, preflightVars>>

NoChecker ==
    /\ hosts = <<>>
    /\ keyState = "ok"
    /\ dialOK = [h \in Hosts |-> TRUE]
    /\ \E p \in Profiles : profile = [h \in Hosts |-> p] /\ p.disk = CmdOut(DfPrints(21, FALSE))
    /\ pingOut = [h \in Hosts |-> CmdOut(Str_ping3)]
    /\ requested = "v1.29"

\* A Monitor built by NewMonitor over masters and nodes.
MonitorRosters ==
    /\ masters \in {SubSeq(MasterNames, 1, n) : n \in 0..MaxMasters}
    /\ nodes \in {SubSeq(NodeNames, 1, n) : n \in 0..MaxNodes}

InitHealth ==
    /\ Idle
    /\ inventory = NoInventory
    /\ cidr = <<>>
    /\ NoChecker
    /\ MonitorRosters
    /\ sshStub \in BOOLEAN

NextHealth ==
    \/ CallCheckClusterHealth
    \/ CheckAPIServer
    \/ CheckEtcd
    \/ CheckKubeletStep
    \/ CheckKubeletReturn
    \/ CheckNodeStatus
    \/ CountReadyNodes
    \/ DetermineOverallHealth
    \/ CheckClusterHealthReturn

SpecHealth == InitHealth /\ [][NextHealth]_vars

\* The Monitor exactly as the source links it: sshConnect is the stub.
InitHealthStub ==
    /\ Idle
    /\ inventory = NoInventory
    /\ cidr = <<>>
    /\ NoChecker
    /\ masters \in {SubSeq(MasterNames, 1, n) : n \in 0..MaxStubHosts}
    /\ nodes \in {SubSeq(NodeNames, 1, n) : n \in 0..MaxStubHosts}
    /\ sshStub = TRUE

SpecHealthStub == InitHealthStub /\ [][NextHealth]_vars

\* A Checker and a Monitor side by side: either exported method may be called.
InitAll == Init \/ InitHealth

NextAll == Next \/ NextHealth

SpecAll == InitAll /\ [][NextAll]_vars

\* The caller cancels the context it passed to RunAll or CheckClusterHealth,
\* or its deadline passes, while the call is running.  Neither method, and
\* nothing they call, reads ctx: no action of the model has ctxDone in its
\* guard.
CancelContext ==
    /\ pc \notin {"idle", "done"}
    /\ ~ctxDone
    /\ ctxDone' = TRUE
    /\ UNCHANGED <<entry, pc, hosts, keyState, dialOK, profile, pingOut, requested,
                   i, j, fnResults, results, returned, sessions, deferred, events,
                   masters, nodes, sshStub, health, nodeStatus,
                   inventory, has, cidr>>

\* A call of either method under a context that may be cancelled at any point.
InitCtx ==
    \/ /\ Idle
       /\ inventory = NoInventory
       /\ cidr = <<>>
       /\ NoMonitor
       /\ hosts \in UNION {[1..n -> Hosts] : n \in 0..MaxCtxHosts}
       /\ keyState = "ok"
       /\ dialOK \in [Hosts -> BOOLEAN]
       /\ \E p \in Profiles : profile = [h \in Hosts |-> p]
       /\ pingOut = [h \in Hosts |-> CmdOut(Str_ping3)]
       /\ requested = "v1.29"
    \/ /\ Idle
       /\ inventory = NoInventory
       /\ cidr = <<>>
       /\ NoChecker
       /\ masters \in {SubSeq(MasterNames, 1, n) : n \in 0..(MaxCtxHosts - 1)}
       /\ nodes \in {SubSeq(NodeNames, 1, n) : n \in 0..(MaxCtxHosts - 1)}
       /\ sshStub \in BOOLEAN

NextCtx == Next \/ NextHealth \/ CancelContext

SpecCtx == InitCtx /\ [][NextCtx]_vars

---------------------------------------------------------------------------
(* pkg/inventory/validator.go                                              *)


\* The section headers Validate looks for.
Section ==
    [all          |-> <<"[", "a", "l", "l", "]">>,
     controlPlane |-> <<"[", "k", "u", "b", "e", "_", "c", "o", "n", "t", "r", "o", "l", "_", "p", "l", "a", "n", "e", "]">>,
     kubeMaster   |-> <<"[", "k", "u", "b", "e", "-", "m", "a", "s", "t", "e", "r", "]">>,
     kubeNode     |-> <<"[", "k", "u", "b", "e", "_", "n", "o", "d", "e", "]">>,
     kubeDashNode |-> <<"[", "k", "u", "b", "e", "-", "n", "o", "d", "e", "]">>,
     etcd         |-> <<"[", "e", "t", "c", "d", "]">>]

\* Other lines of an inventory: a header behind a "#", a header with white
\* space around it and a carriage return, the header of another section.
OtherLine ==
    [comment  |-> <<" ", " ", "#", "[", "e", "t", "c", "d", "]">>,
     indented |-> <<" ", " ", "[", "a", "l", "l", "]", "\t", "\r">>,
     vars     |-> <<"[", "a", "l", "l", ":", "v", "a", "r", "s", "]">>]

LineKinds ==
    {Section.all, Section.controlPlane, Section.kubeMaster, Section.kubeNode,
     Section.kubeDashNode, Section.etcd, OtherLine.comment, OtherLine.indented,
     OtherLine.vars}

\* The text of a file with the given lines; the last line ends in a newline
\* or not (final).
RECURSIVE FileText(_, _)
FileText(ls, final) ==
    IF ls = <<>> THEN <<>>
    ELSE IF Len(ls) = 1 THEN Head(ls) \o (IF final THEN <<"\n">> ELSE <<>>)
    ELSE Head(ls) \o <<"\n">> \o FileText(Tail(ls), final)

\* A path os.Open opens and the scanner's first read fails on.
Directory == [readable |-> TRUE, readErr |-> TRUE, text |-> <<>>]

Inventories ==
    {[readable |-> TRUE, readErr |-> FALSE, text |-> FileText(ls, final)] :
        ls \in UNION {[1..n -> LineKinds] : n \in 0..MaxLines}, final \in BOOLEAN}
        \cup {NoInventory, Directory}

\* bufio.ScanLines: the text up to each newline without a trailing carriage
\* return, and what is left at the end of the file when it is not empty.
DropCR(s) ==
    IF s # <<>> /\ s[Len(s)] = "\r" THEN SubSeq(s, 1, Len(s) - 1) ELSE s

ScanLines(text) ==
    LET parts == Split(text, "\n")
        kept  == IF parts[Len(parts)] = <<>> THEN SubSeq(parts, 1, Len(parts) - 1)
                 ELSE parts
    IN  [k \in 1..Len(kept) |-> DropCR(kept[k])]

\* The variant knows only the first name of each section.
SectionFlags_NoAliases(h, line) ==
    IF line = Section.all THEN [h EXCEPT !.all = TRUE]
    ELSE IF line = Section.controlPlane THEN [h EXCEPT !.controlPlane = TRUE]
    ELSE IF line = Section.kubeNode THEN [h EXCEPT !.node = TRUE]
    ELSE IF line = Section.etcd THEN [h EXCEPT !.etcd = TRUE]
    ELSE h

\* The switch of Validate's loop, on a line that is no comment.
SectionFlags(h, line) ==
    IF line = Section.all THEN [h EXCEPT !.all = TRUE]
    ELSE IF line \in {Section.controlPlane, Section.kubeMaster}
    THEN [h EXCEPT !.controlPlane = TRUE]
    ELSE IF line \in {Section.kubeNode, Section.kubeDashNode}
    THEN [h EXCEPT !.node = TRUE]
    ELSE IF line = Section.etcd THEN [h EXCEPT !.etcd = TRUE]
    ELSE h

\* The checks after the loop: the error returned, or "nil".
ValidateError(h) ==
    IF ~h.all THEN "inventory missing [all] section"
    ELSE IF ~h.controlPlane THEN "inventory missing [kube_control_plane] section"
    ELSE IF ~h.node THEN "inventory missing [kube_node] section"
    ELSE IF ~h.etcd THEN "inventory missing [etcd] section"
    ELSE "nil"

\* What the validator and the calculator leave alone.
remoteVars ==
    <<hosts, keyState, dialOK, profile, pingOut, requested, ctxDone, j, fnResults,
      results, sessions, deferred, events, masters, nodes, sshStub, health,
      nodeStatus>>

\* Validate is called: os.Open, and the four flags start false.
CallValidate ==
    /\ pc = "idle"
    /\ entry' = "Validate"
    /\ i' = 1
    /\ has' = NoFlags
    /\ IF inventory.readable
       THEN /\ pc' = "scan"
            /\ UNCHANGED returned
       ELSE /\ pc' = "done"
            /\ returned' = [value |-> <<>>, err |-> "failed to open inventory"]
    /\ UNCHANGED <<remoteVars, inventory, cidr>>

\* One iteration of the scanner loop.
ValidateScanStep ==
    /\ pc = "scan"
    /\ i <= Len(ScanLines(inventory.text))
    /\ LET line == TrimSpace(ScanLines(inventory.text)[i])
       IN  has' = IF line = <<>> \/ HasPrefix(line, <<"#">>) THEN has
                  ELSE SectionFlags(has, line)
    /\ i' = i + 1
    /\ UNCHANGED <<entry, pc, returned>>
    /\ UNCHANGED <<remoteVars, inventory, cidr>>

\* The scanner is at the end of the file: the sections are checked.
ValidateReturn ==
    /\ pc = "scan"
    /\ i > Len(ScanLines(inventory.text))
    /\ pc' = "done"
    /\ returned' = [value |-> <<>>,
                    err   |-> IF inventory.readErr THEN "error reading inventory"
                              ELSE ValidateError(has)]
    /\ UNCHANGED <<entry, i, has>>
    /\ UNCHANGED <<remoteVars, inventory, cidr>>

\* A Validator and an inventory file of at most MaxLines lines.
InitValidate ==
    /\ Idle
    /\ NoMonitor
    /\ NoChecker
    /\ cidr = <<>>
    /\ inventory \in Inventories

NextValidate == CallValidate \/ ValidateScanStep \/ ValidateReturn

SpecValidate == InitValidate /\ [][NextValidate]_vars

---------------------------------------------------------------------------
(* pkg/network: the subnet calculator.                                     *)

\* The strings CalculateSubnets is given: the networks a.b.c.0/n over a few
\* octets and prefix lengths, and strings that are no IPv4 network.
Cidrs ==
    LET Dotted(a, b, c, n) ==
            Itoa(a) \o <<".">> \o Itoa(b) \o <<".">> \o Itoa(c) \o <<".", "0", "/">> \o Itoa(n)
    IN  {Dotted(a, b, c, n) : a \in {10, 172, 192}, b \in {0, 168, 233, 234},
                              c \in {0, 64}, n \in {8, 16, 18, 24}}
        \cup {<<"i", "n", "v", "a", "l", "i", "d", "-", "c", "i", "d", "r">>,
              <<>>,
              <<"1", "0", ".", "2", "3", "3", ".", "0", ".", "0">>,
              <<"1", "0", ".", "2", "3", "3", ".", "0", ".", "0", "/">>,
              <<"1", "0", ".", "2", "3", "3", ".", "0", ".", "0", "/", "3", "3">>,
              <<"1", "0", ".", "2", "3", "3", ".", "0", ".", "0", "/", "1", "x">>,
              <<"1", "0", ".", "2", "3", "3", ".", "0", "/", "1", "6">>,
              <<"2", "5", "6", ".", "2", "3", "3", ".", "0", ".", "0", "/", "1", "6">>,
              <<"1", "0", ".", "2", "3", "3", ".", "0", ".", "0", ".", "0", "/", "1", "6">>,
              <<"1", "0", ".", "2", "3", "3", ".", "0", ".", "0", "/", "1", "6", "/", "1", "8">>,
              <<"0", "1", "0", ".", "2", "3", "3", ".", "0", ".", "0", "/", "1", "6">>,
              <<"1", "0", ".", "2", "3", "3", ".", "0", ".", "0", "/", "0", "1", "6">>,
              <<"f", "d", "0", "0", ":", ":", "/", "8">>,
              <<":", ":", "1", "/", "1", "2", "8">>,
              <<"f", "d", "0", "0", ":", ":", ":", "/", "8">>}

\* IP.Mask with a mask of `ones` leading one bits, on the four octets.
MaskIP(ip, ones) ==
    [k \in 1..4 |->
        LET left == ones - 8 * (k - 1)
            keep == IF left < 0 THEN 0 ELSE IF left > 8 THEN 8 ELSE left
        IN  (ip[k] \div 2^(8 - keep)) * 2^(8 - keep)]

\* net.ParseCIDR: the text before the first "/" is an IPv4 address in dotted
\* decimal (four fields of one to three digits, none with a leading zero, each
\* at most 255) or an IPv6 address (groups of one to four hexadecimal digits
\* between colons, "::" once for a run of zero groups; zones and embedded
\* IPv4 addresses are left out), the text after it a decimal number of at most
\* as many bits as the address has. ip is the address with the mask applied
\* (the four octets; not computed for IPv6), ones and bits are Mask.Size().
ParseCIDR(s) ==
    LET parts == Split(s, "/")
        addr  == parts[1]
        mask  == parts[2]
        Failed == [ok |-> FALSE, ip |-> <<>>, ones |-> 0, bits |-> 0]
        f == Split(addr, ".")
        FieldOK(x) == /\ AllDigits(x)
                      /\ Len(x) <= 3
                      /\ (Len(x) > 1 => x[1] # "0")
                      /\ DecimalValue(x) <= 255
        IsIPv4 == Len(f) = 4 /\ \A k \in 1..4 : FieldOK(f[k])
        Hex == Digits \cup {"a", "b", "c", "d", "e", "f", "A", "B", "C", "D", "E", "F"}
        g == Split(addr, ":")
        g1 == IF HasPrefix(addr, <<":", ":">>) THEN Tail(g) ELSE g
        g2 == IF HasSuffix(addr, <<":", ":">>) /\ g1 # <<>> THEN SubSeq(g1, 1, Len(g1) - 1) ELSE g1
        GroupOK(x) == x # <<>> /\ Len(x) <= 4 /\ \A k \in 1..Len(x) : x[k] \in Hex
        gaps == {k \in 1..Len(g2) : g2[k] = <<>>}
        IsIPv6 == /\ \A k \in (1..Len(g2)) \ gaps : GroupOK(g2[k])
                  /\ IF Contains(addr, <<":", ":">>)
                     THEN Cardinality(gaps) = 1 /\ Len(g2) <= 8
                     ELSE gaps = {} /\ Len(g2) = 8
        MaskOK(width) == AllDigits(mask) /\ Len(mask) <= 7 /\ DecimalValue(mask) <= width
    IN  IF Len(parts) # 2 THEN Failed
        ELSE IF IsIPv4
        THEN IF MaskOK(32)
             THEN [ok   |-> TRUE,
                   ip   |-> MaskIP([k \in 1..4 |-> DecimalValue(f[k])], DecimalValue(mask)),
                   ones |-> DecimalValue(mask),
                   bits |-> 32]
             ELSE Failed
        ELSE IF IsIPv6 /\ MaskOK(128)
        THEN [ok |-> TRUE, ip |-> <<>>, ones |-> DecimalValue(mask), bits |-> 128]
        ELSE Failed

\* What CalculateSubnets returns for a string: the service network, the pod
\* network and the error.
CalculateSubnets(s) ==
    LET ipNet == ParseCIDR(s)
    IN  IF ~ipNet.ok
        THEN [value |-> <<<<>>, <<>>>>, err |-> "invalid CIDR: %w"]
        ELSE IF ipNet.bits # 32
        THEN [value |-> <<<<>>, <<>>>>, err |-> "only IPv4 networks are supported"]
        ELSE [value |-> <<<<"1", "0", ".", "2", "3", "3", ".", "0", ".", "0", "/", "1", "8">>,
                          <<"1", "0", ".", "2", "3", "3", ".", "6", "4", ".", "0", "/", "1", "8">>>>,
              err   |-> "nil"]

CallCalculateSubnets ==
    /\ pc = "idle"
    /\ entry' = "CalculateSubnets"
    /\ pc' = "done"
    /\ returned' = CalculateSubnets(cidr)
    /\ UNCHANGED <<i, has, remoteVars, inventory, cidr>>

\* A Calculator and the string it is called with.
InitSubnets ==
    /\ Idle
    /\ NoMonitor
    /\ NoChecker
    /\ inventory = NoInventory
    /\ cidr \in Cidrs

SpecSubnets == InitSubnets /\ [][CallCalculateSubnets]_vars

---------------------------------------------------------------------------
(* Properties.                                                             *)

\* The pairs of positions (a, b), a < b <= n, in the order of the two loops.
RECURSIVE PairsFrom(_, _, _)
PairsFrom(a, b, n) ==
    IF a > n THEN <<>>
    ELSE IF b > n THEN PairsFrom(a + 1, a + 2, n)
    ELSE << <<a, b>> >> \o PairsFrom(a, b + 1, n)

ExpectedPairs(n) == PairsFrom(1, 2, n)

RunAllDone == entry = "RunAll" /\ pc = "done"
ReqDone == entry = "CheckSystemRequirements" /\ pc = "done"
HealthDone == entry = "CheckClusterHealth" /\ pc = "done"

\* CheckNetworkConnectivity is about to return fnResults.
NetworkLoopOver ==
    pc = "CheckNetworkConnectivity" /\ (Len(hosts) < 2 \/ i > Len(hosts))

PairName(a, b) == <<"Network Connectivity - ", hosts[a], " to ", hosts[b]>>

\* C1: for a roster of n hosts CheckNetworkConnectivity returns n(n-1)/2
\* results, the k-th being that of the k-th pair of positions (a, b), a < b,
\* in roster order, whatever fails; nothing for n < 2.
C1_PairwiseResults ==
    NetworkLoopOver =>
        LET n == Len(hosts)
            e == ExpectedPairs(n)
        IN  /\ Len(fnResults) = (n * (n - 1)) \div 2
            /\ Len(e) = Len(fnResults)
            /\ n < 2 => fnResults = <<>>
            /\ \A k \in 1..Len(e) :
                  /\ e[k][1] < e[k][2]
                  /\ fnResults[k].Name = PairName(e[k][1], e[k][2])
            /\ \A k, l \in 1..Len(e) : k # l => e[k] # e[l]

C1_Witness ==
    /\ NetworkLoopOver
    /\ Len(hosts) = 3
    /\ Len(fnResults) = 3
    /\ \E k \in 1..3 : fnResults[k].Message.fmt = "Cannot connect to source: %v"
    /\ \E k \in 1..3 : fnResults[k].Message.fmt = "Ping failed between nodes"
    /\ \E k \in 1..3 : fnResults[k].Passed

\* C2 (as claimed): a host that prints its cores, memory and free disk gets
\* Passed = TRUE exactly when all three reach the minimums, and otherwise the
\* message of the first minimum it misses, in the order CPU, memory, disk.
C2_ThresholdFunction ==
    (ReqDone /\ SshConnect(hosts[1]) = "ok") =>
        \A c \in CoreCounts, kb \in MemKBs, g \in DiskGBs, nl \in BOOLEAN :
            profile[hosts[1]] = [cpu |-> CmdOut(NprocPrints(c)),
                                 mem |-> CmdOut(MeminfoPrints(kb)),
                                 disk |-> CmdOut(DfPrints(g, nl))]
            => LET r == returned.value[1]
               IN  /\ r.Passed = (/\ c >= minCPU
                                  /\ kb >= minMemoryGB * 1024 * 1024
                                  /\ g >= minDiskGB)
                   /\ ~r.Passed =>
                        r.Message.fmt =
                            IF c < minCPU
                            THEN "Insufficient CPU cores: %d (minimum: %d)"
                            ELSE IF kb < minMemoryGB * 1024 * 1024
                            THEN "Insufficient memory: %dGB (minimum: %dGB)"
                            ELSE "Insufficient disk space: %dGB (minimum: %dGB)"

\* C3 (as claimed): a host one of whose outputs lacks the number looked for is
\* not reported as meeting the requirements, and is not reported as short of
\* the resource that could not be read.
C3_ParseFailureDistinct ==
    (ReqDone /\ SshConnect(hosts[1]) = "ok") =>
        LET p == profile[hosts[1]]
            r == returned.value[1]
        IN  (\/ p.cpu = CmdOut(Str_nprocBad)
             \/ p.mem = CmdOut(Str_memBad)
             \/ p.disk = CmdOut(Str_diskBad))
            => /\ r.Message.fmt # "System requirements met"
               /\ p.cpu = CmdOut(Str_nprocBad)
                    => r.Message.fmt # "Insufficient CPU cores: %d (minimum: %d)"
               /\ p.mem = CmdOut(Str_memBad)
                    => r.Message.fmt # "Insufficient memory: %dGB (minimum: %dGB)"
               /\ p.disk = CmdOut(Str_diskBad)
                    => r.Message.fmt # "Insufficient disk space: %dGB (minimum: %dGB)"

\* The ClusterHealth is complete: every check's statuses are in Components.
AllComponentsListed(h) ==
    Len(h.Components) = 2 + Len(allHosts) + Len(nodeStatus)

\* C4: the ClusterHealth returned has Healthy = FALSE exactly when one of its
\* components is not healthy, and lists the components of every check.
C4_OverallHealthy ==
    HealthDone =>
        LET h == returned.value
        IN  /\ (~h.Healthy) <=> (\E k \in 1..Len(h.Components) : ~h.Components[k].Healthy)
            /\ AllComponentsListed(h)

C4_Witness ==
    /\ HealthDone
    /\ ~returned.value.Healthy
    /\ ~returned.value.Components[1].Healthy
    /\ returned.value.Components[2].Healthy
    /\ Len(nodeStatus) >= 2
    /\ returned.value.Components[Len(returned.value.Components)].Healthy

\* The node listing that checkNodeStatus read was `text`.
ListingRead(text) ==
    \E k \in 1..Len(events) :
        /\ events[k].op = "run"
        /\ events[k].cmd = "kubectl get nodes"
        /\ events[k].out = CmdOut(text)

C7_VersionCompared ==
    RunAllDone =>
        LET v == returned.value
            r == v[Len(v)]
        IN  /\ r.Name = <<"Kubernetes Version Compatibility">>
            /\ \A k \in 1..(Len(v) - 1) : v[k].Name[1] # "Kubernetes Version Compatibility"
            /\ r.Passed = (\E k \in 1..Len(supportedVersions) :
                              supportedVersions[k] = requested)

\* C8: RunAll over n hosts returns n reachability results, n capacity
\* results, n(n-1)/2 pairwise results and one version result; a host that
\* cannot be connected to gets failing results of its own, and every other
\* result is what the host's own side alone determines.
C8_PartialFailureTolerant ==
    RunAllDone =>
        LET n == Len(hosts)
            v == returned.value
            e == ExpectedPairs(n)
        IN  /\ Len(v) = n + n + (n * (n - 1)) \div 2 + 1
            /\ \A k \in 1..n :
                  /\ v[k].Name = <<"SSH Connectivity - ", hosts[k]>>
                  /\ v[k].Passed = (SshConnect(hosts[k]) = "ok")
            /\ \A k \in 1..n :
                  /\ v[n + k].Name = <<"System Requirements - ", hosts[k]>>
                  /\ IF SshConnect(hosts[k]) = "ok"
                     THEN v[n + k] = RequirementsOf(hosts[k], profile[hosts[k]]).result
                     ELSE /\ ~v[n + k].Passed
                          /\ v[n + k].Message.fmt = "Cannot connect: %v"
            /\ \A k \in 1..Len(e) :
                  LET src == hosts[e[k][1]]
                      dst == hosts[e[k][2]]
                  IN  /\ v[2 * n + k].Name = PairName(e[k][1], e[k][2])
                      /\ IF SshConnect(src) = "ok"
                         THEN v[2 * n + k] = PingResult(src, dst, pingOut[dst])
                         ELSE /\ ~v[2 * n + k].Passed
                              /\ v[2 * n + k].Message.fmt = "Cannot connect to source: %v"
            /\ v[Len(v)] = KubernetesVersionResult

C8_Witness ==
    /\ RunAllDone
    /\ Len(hosts) = 3
    /\ \E k, l \in 1..3 :
          /\ k < l
          /\ SshConnect(hosts[k]) # "ok"
          /\ SshConnect(hosts[l]) = "ok"
          /\ ~returned.value[3 + k].Passed
          /\ returned.value[3 + l].Passed
          /\ returned.value[l].Passed

\* C9: RunAll returns the reachability results, then the capacity results,
\* then the pairwise results, then the version result, each group in roster
\* order; CheckClusterHealth lists the API server, etcd, the kubelets of
\* masters then nodes, then the node statuses, and ReadyNodes and Healthy are
\* still untouched while a check is yet to run.
C9_AggregationOrder ==
    /\ RunAllDone =>
          LET n == Len(hosts)
              v == returned.value
              e == ExpectedPairs(n)
          IN  /\ Len(v) = 2 * n + Len(e) + 1
              /\ \A k \in 1..n : v[k].Name = <<"SSH Connectivity - ", hosts[k]>>
              /\ \A k \in 1..n : v[n + k].Name = <<"System Requirements - ", hosts[k]>>
              /\ \A k \in 1..Len(e) : v[2 * n + k].Name = PairName(e[k][1], e[k][2])
              /\ v[Len(v)].Name = <<"Kubernetes Version Compatibility">>
    /\ (entry = "CheckClusterHealth"
          /\ pc \in {"countReadyNodes", "overall", "CheckClusterHealthReturn", "done"}) =>
          LET c == health.Components
              m == Len(allHosts)
          IN  /\ AllComponentsListed(health)
              /\ c[1].Name = Str_APIServer
              /\ c[2].Name = Str_etcd
              /\ \A k \in 1..m : c[2 + k].Name = Str_kubeletDash \o allHosts[k]
              /\ SubSeq(c, 3 + m, Len(c)) = nodeStatus
    /\ (entry = "CheckClusterHealth"
          /\ pc \in {"checkAPIServer", "checkEtcd", "checkKubelet", "checkNodeStatus"}) =>
          /\ health.ReadyNodes = 0
          /\ ~health.Healthy
    /\ HealthDone =>
          /\ returned.value = health
          /\ health.ReadyNodes = countReadyNodes(nodeStatus)

C9_Witness ==
    /\ HealthDone
    /\ Len(masters) = 2
    /\ Len(nodes) = 2
    /\ Len(nodeStatus) = 3
    /\ health.Healthy
    /\ health.ReadyNodes = 3

\* C10: a session is closed at most once, and once the check that opened it
\* has returned it has been closed exactly once.
C10_SessionsReleasedOnce ==
    \A sid \in 1..Len(sessions) :
        /\ sessions[sid].closes <= 1
        /\ sessions[sid].open <=> sessions[sid].closes = 0
        /\ sessions[sid].owner # pc => (~sessions[sid].open /\ sessions[sid].closes = 1)

C10_Witness ==
    /\ RunAllDone
    /\ Len(hosts) = 3
    /\ \E a, b \in 1..Len(sessions) :
          /\ a # b
          /\ sessions[a].owner = "CheckSystemRequirements"
          /\ sessions[b].owner = "CheckSystemRequirements"
    /\ \E k \in 1..Len(returned.value) :
          returned.value[k].Message.fmt = "Insufficient memory: %dGB (minimum: %dGB)"
    /\ \E k \in 1..Len(returned.value) :
          returned.value[k].Message.fmt = "Ping failed between nodes"
    /\ \A sid \in 1..Len(sessions) : sessions[sid].closes = 1

\* The sessions that are open now.
OpenSessions == {sid \in 1..Len(sessions) : sessions[sid].open}

\* C11 (as claimed): the session of one host's or pair's check is closed
\* before the session of the next one is opened, so at most one session is
\* open at any time, whatever the size of the roster.
C11_SessionsSequential ==
    Cardinality(OpenSessions) <= 1

\* A network connection was attempted: ssh.Dial was reached.
DialAttempted ==
    \E k \in 1..Len(events) :
        \/ events[k].op = "connect"
        \/ events[k].op = "connect-failed" /\ events[k].cmd = "SSH dial failed"

\* C12 (as claimed): with an empty roster or a private key that cannot be read
\* or parsed RunAll yields no check result and attempts no connection; with a
\* roster and a usable key RunAll, and in every case CheckClusterHealth, run
\* to their end and return the full report with a nil error.
C12_RejectedBeforeChecks ==
    /\ (entry = "RunAll" /\ (hosts = <<>> \/ keyState # "ok")) =>
          /\ fnResults = <<>>
          /\ results = <<>>
          /\ returned.value = <<>>
          /\ ~DialAttempted
    /\ (RunAllDone /\ hosts # <<>> /\ keyState = "ok") =>
          /\ returned.err = "nil"
          /\ Len(returned.value) =
                2 * Len(hosts) + Len(ExpectedPairs(Len(hosts))) + 1
    /\ HealthDone =>
          /\ returned.err = "nil"
          /\ returned.value = health
          /\ AllComponentsListed(health)

\* C13 (as claimed): once the caller's context is cancelled or past its
\* deadline no session is opened and no command is run any more; the checks
\* still to come report a failure of their own.
C13_CancelStopsIO ==
    [][ctxDone =>
          \A k \in (Len(events) + 1)..Len(events') :
              events'[k].op \notin {"connect", "run"}]_vars

\* C14: with no control-plane host the report returned is not empty: its
\* first component, the only one of the API server, is not healthy and says
\* "No master nodes configured", and Healthy is FALSE.
C14_NoMastersFails ==
    (HealthDone /\ masters = <<>>) =>
        LET h == returned.value
        IN  /\ h.Components # <<>>
            /\ h.Components[1].Name = Str_APIServer
            /\ ~h.Components[1].Healthy
            /\ h.Components[1].Message = Msg("No master nodes configured", <<>>)
            /\ \A k \in 2..Len(h.Components) : h.Components[k].Name # Str_APIServer
            /\ ~h.Healthy

C14_Witness ==
    /\ HealthDone
    /\ masters = <<>>
    /\ Len(nodes) = 2
    /\ Len(returned.value.Components) = 4
    /\ returned.value.Components[3].Healthy
    /\ returned.value.Components[4].Healthy
    /\ ~returned.value.Healthy

\* What came back from the command `cmd`, for each time it was run.
RunsOf(cmd) ==
    {events[k].out : k \in {n \in 1..Len(events) :
                                events[n].op = "run" /\ events[n].cmd = cmd}}

KubeletRuns(host) ==
    {k \in 1..Len(events) : /\ events[k].op = "run"
                             /\ events[k].cmd = "is-active kubelet"
                             /\ events[k].host = host}

\* checkKubelet has just returned and its statuses are in health.Components,
\* or the report has been returned.
KubeletDone ==
    /\ entry = "CheckClusterHealth"
    /\ pc \in {"checkNodeStatus", "done"}

\* C16: checkKubelet gives one status per host of masters followed by nodes,
\* in that order and no other; a host that cannot be connected to gets a
\* failing status of its own, and every host that can is probed once and its
\* status is what its own command gave.
C16_KubeletPerHost ==
    /\ (entry = "CheckClusterHealth" /\ pc = "checkKubelet") => Len(fnResults) = i - 1
    /\ KubeletDone =>
          LET roster == masters \o nodes
              c      == health.Components
          IN  /\ Len(c) >= 2 + Len(roster)
              /\ \A k \in 1..Len(c) :
                    HasPrefix(c[k].Name, Str_kubeletDash)
                        <=> (3 <= k /\ k <= 2 + Len(roster))
              /\ \A k \in 1..Len(roster) :
                    LET s == c[2 + k]
                    IN  /\ s.Name = Str_kubeletDash \o roster[k]
                        /\ Cardinality(KubeletRuns(roster[k])) <= 1
                        /\ KubeletRuns(roster[k]) = {} =>
                              /\ ~s.Healthy
                              /\ s.Message.fmt = "Cannot connect: %v"
                        /\ \A n \in KubeletRuns(roster[k]) :
                              /\ s.Healthy = (/\ ~events[n].out.err
                                               /\ Contains(events[n].out.out, Str_activeWord))
                              /\ s.Message.fmt = IF s.Healthy THEN "kubelet is running"
                                                  ELSE "kubelet is not running"

C16_Witness ==
    /\ HealthDone
    /\ Len(masters) = 2
    /\ Len(nodes) = 2
    /\ health.Components[3].Message.fmt = "Cannot connect: %v"
    /\ health.Components[4].Healthy
    /\ health.Components[5].Message.fmt = "kubelet is not running"
    /\ health.Components[6].Healthy

\* The non-empty lines of a text.
NonEmptyLines(text) == SelectSeq(Split(text, "\n"), LAMBDA l : l # <<>>)

FieldedLines(text) == SelectSeq(Split(text, "\n"), LAMBDA l : Len(Fields(l)) >= 2)

C18_CapacityScenario ==
    ReqDone =>
        LET v == returned.value
        IN  /\ Len(v) = 3
            /\ \A k \in 1..3 : v[k].Name = <<"System Requirements - ", hosts[k]>>
            /\ ~v[2].Passed
            /\ v[2].Message = Msg("Insufficient memory: %dGB (minimum: %dGB)", <<1, 2>>)
            /\ v[1].Passed
            /\ v[3].Passed

\* The roster positions whose host can be connected to, in roster order.
ReachablePositions ==
    SelectSeq([k \in 1..Len(hosts) |-> k], LAMBDA k : SshConnect(hosts[k]) = "ok")

\* The commands run on session sid, in the order they were run.
RECURSIVE CommandsOn(_, _)
CommandsOn(sid, evs) ==
    IF evs = <<>> THEN <<>>
    ELSE (IF Head(evs).op = "run" /\ Head(evs).sid = sid THEN <<Head(evs).cmd>> ELSE <<>>)
         \o CommandsOn(sid, Tail(evs))

\* C19: CheckSystemRequirements opens one session per reachable host and none
\* for the others; on it the queries are nproc, then meminfo, then df, and
\* they stop with the query whose threshold is missed; every roster position
\* gets exactly one result, its own.
C19_ShortCircuit ==
    /\ (entry = "CheckSystemRequirements" /\ pc = "CheckSystemRequirements") =>
          Len(fnResults) = i - 1
    /\ ReqDone =>
          LET v == returned.value
              p == ReachablePositions
          IN  /\ Len(v) = Len(hosts)
              /\ \A k \in 1..Len(v) : v[k].Name = <<"System Requirements - ", hosts[k]>>
              /\ Len(sessions) = Len(p)
              /\ \A k \in 1..Len(hosts) :
                    SshConnect(hosts[k]) # "ok" =>
                        ~v[k].Passed /\ v[k].Message.fmt = "Cannot connect: %v"
              /\ \A sid \in 1..Len(p) :
                    LET r == v[p[sid]]
                    IN  /\ sessions[sid].host = hosts[p[sid]]
                        /\ r.Passed = (r.Message.fmt = "System requirements met")
                        /\ CommandsOn(sid, events) =
                              IF r.Message.fmt = "Insufficient CPU cores: %d (minimum: %d)"
                              THEN <<"nproc">>
                              ELSE IF r.Message.fmt = "Insufficient memory: %dGB (minimum: %dGB)"
                              THEN <<"nproc", "meminfo">>
                              ELSE <<"nproc", "meminfo", "df">>
                        /\ r.Message.fmt \in
                              {"Insufficient CPU cores: %d (minimum: %d)",
                               "Insufficient memory: %dGB (minimum: %dGB)",
                               "Insufficient disk space: %dGB (minimum: %dGB)",
                               "System requirements met"}

C19_Witness ==
    /\ ReqDone
    /\ Len(hosts) = 2
    /\ Len(sessions) = 2
    /\ returned.value[1].Message.fmt = "Insufficient CPU cores: %d (minimum: %d)"
    /\ CommandsOn(1, events) = <<"nproc">>
    /\ returned.value[2].Message.fmt = "Insufficient memory: %dGB (minimum: %dGB)"
    /\ CommandsOn(2, events) = <<"nproc", "meminfo">>

\* A step of checkAPIServer, checkEtcd or checkNodeStatus puts on the wire,
\* and opens sessions to, masters[0] alone.
StepContactsFirstMaster ==
    pc \in {"checkAPIServer", "checkEtcd", "checkNodeStatus"} =>
        /\ \A k \in (Len(events) + 1)..Len(events') : events'[k].host = masters[1]
        /\ \A sid \in (Len(sessions) + 1)..Len(sessions') :
              sessions'[sid].host = masters[1]

\* C20: whatever checkAPIServer, checkEtcd and checkNodeStatus do on the wire
\* (a connection attempt, a session, a command) is done with masters[0] and
\* with no other host, and the API server's status is healthy exactly when
\* its command ran without error and gave text containing "active" or "ok".
C20_FirstMasterOnly ==
    /\ [][StepContactsFirstMaster]_vars
    /\ [](\A sid \in 1..Len(sessions) :
            sessions[sid].owner \in {"checkAPIServer", "checkEtcd", "checkNodeStatus"}
                => sessions[sid].host = masters[1])
    /\ []((entry = "CheckClusterHealth" /\ pc # "checkAPIServer") =>
            (health.Components[1].Healthy <=>
                \E r \in RunsOf("is-active kube-apiserver") :
                    /\ ~r.err
                    /\ Contains(r.out, Str_activeWord) \/ Contains(r.out, Str_ok)))

C20_Witness ==
    /\ HealthDone
    /\ Len(masters) = 2
    /\ Len(nodes) = 2
    /\ \E a, b, c \in 1..Len(sessions) :
          /\ sessions[a].owner = "checkAPIServer"
          /\ sessions[b].owner = "checkEtcd"
          /\ sessions[c].owner = "checkNodeStatus"
    /\ \E sid \in 1..Len(sessions) : sessions[sid].host = masters[2]
    /\ health.Components[1].Healthy
    /\ RunsOf("is-active kube-apiserver") = {CmdOut(Str_inactiveOk)}

ValidateDone == entry = "Validate" /\ pc = "done"

\* The lines of the inventory that are no comments, white space taken off
\* both ends.
SectionLines ==
    LET raw == Split(inventory.text, "\n")
    IN  {l \in {TrimSpace(raw[k]) : k \in 1..Len(raw)} : l # <<>> /\ l[1] # "#"}

\* C22: on a file that is opened and read without error Validate returns nil exactly when the
\* lines that are no comments hold [all], one of [kube_control_plane] and
\* [kube-master], one of [kube_node] and [kube-node], and [etcd], in any
\* order; otherwise the error of the first one missing, in that order.
C22_RequiredSections ==
    (ValidateDone /\ inventory.readable /\ ~inventory.readErr) =>
        LET hasAll  == Section.all \in SectionLines
            hasCP   == {Section.controlPlane, Section.kubeMaster} \cap SectionLines # {}
            hasNode == {Section.kubeNode, Section.kubeDashNode} \cap SectionLines # {}
            hasEtcd == Section.etcd \in SectionLines
        IN  /\ returned.err = "nil" <=> (hasAll /\ hasCP /\ hasNode /\ hasEtcd)
            /\ returned.err =
                  IF ~hasAll THEN "inventory missing [all] section"
                  ELSE IF ~hasCP THEN "inventory missing [kube_control_plane] section"
                  ELSE IF ~hasNode THEN "inventory missing [kube_node] section"
                  ELSE IF ~hasEtcd THEN "inventory missing [etcd] section"
                  ELSE "nil"

C22_Witness ==
    /\ ValidateDone
    /\ returned.err = "nil"
    /\ Contains(inventory.text, Section.kubeMaster)
    /\ Contains(inventory.text, Section.kubeDashNode)
    /\ Contains(inventory.text, OtherLine.indented)
    /\ HasPrefix(inventory.text, Section.etcd)

C22_WitnessComment ==
    /\ ValidateDone
    /\ returned.err = "inventory missing [etcd] section"
    /\ Contains(inventory.text, OtherLine.comment)

SubnetsDone == entry = "CalculateSubnets" /\ pc = "done"

\* The network sub lies inside the network net.
Inside(sub, net) == sub.ones >= net.ones /\ MaskIP(sub.ip, net.ones) = net.ip

\* C23: for a valid IPv4 /16 network CalculateSubnets returns its first /18
\* quarter as the service subnet and its second /18 quarter as the pod subnet,
\* both inside the network given and not overlapping; for a string that is no
\* valid CIDR it returns an error and two empty strings.
C23_QuartersOfInput ==
    SubnetsDone =>
        LET n == ParseCIDR(cidr)
        IN  /\ (n.ok /\ n.bits = 32 /\ n.ones = 16) =>
                  /\ returned.err = "nil"
                  /\ LET svc == ParseCIDR(returned.value[1])
                         pod == ParseCIDR(returned.value[2])
                     IN  /\ svc.ok /\ pod.ok
                         /\ svc.ones = 18 /\ svc.ip = <<n.ip[1], n.ip[2], 0, 0>>
                         /\ pod.ones = 18 /\ pod.ip = <<n.ip[1], n.ip[2], 64, 0>>
                         /\ Inside(svc, n) /\ Inside(pod, n)
                         /\ ~Inside(svc, pod) /\ ~Inside(pod, svc)
            /\ ~n.ok => (returned.err = "invalid CIDR: %w" /\ returned.value = <<<<>>, <<>>>>)

====
